---- MODULE Spec2Model ----
(***************************************************************************)
(* A model of renamer.py: one run of main() as a state machine.  The run   *)
(* reads argv and a directory tree, scans and probes the files, computes   *)
(* the duration confidence interval, filters, checks the expected count,   *)
(* synthesises the rename plan and prints it.                              *)
(*                                                                         *)
(* Conventions.  A Python str is a sequence of one-character strings.  A   *)
(* Python float is a fixed-point integer counted in 1/Scale units, with    *)
(* the two extra values Inf and NaN where the code can produce them.  An   *)
(* optional value (None or v) is the sequence <<>> or <<v>>.               *)
(***************************************************************************)
EXTENDS Integers, Sequences, FiniteSets, TLC

\* ------------------------------------------------------------------ bounds
\* The largest duration, in whole seconds, a probed file has.
MaxDur == 3
\* The largest number of files in the directory the statistics inputs use.
MaxSample == 3
\* The largest --offset.
MaxOffset == 1
\* The largest --exclude-after.
MaxExcludeAfter == 2
\* The largest --expect.
MaxExpect == 3

\* -------------------------------------------------------------- Python str
None == <<>>
Some(v) == <<v>>
IsNone(o) == Len(o) = 0
Val(o) == o[1]

Digits == <<"0", "1", "2", "3", "4", "5", "6", "7", "8", "9">>
IsDigit(c) == \E k \in 1..10 : Digits[k] = c
DigitVal(c) == (CHOOSE k \in 1..10 : Digits[k] = c) - 1

\* ord(c) for the characters the inputs are written in.
CharCode(c) ==
    CASE c = " " -> 32 [] c = "'" -> 39 [] c = "*" -> 42 [] c = "-" -> 45
      [] c = "." -> 46 [] c = "/" -> 47
      [] IsDigit(c) -> 48 + DigitVal(c)
      [] c = "E" -> 69 [] c = "a" -> 97 [] c = "b" -> 98 [] c = "o" -> 111
      [] c = "p" -> 112 [] c = "s" -> 115 [] c = "t" -> 116 [] c = "x" -> 120
      [] c = "y" -> 121
      [] OTHER -> 127

\* a < b for two str: lexicographic by code point.
RECURSIVE StrLess(_, _)
StrLess(a, b) ==
    IF Len(b) = 0 THEN FALSE
    ELSE IF Len(a) = 0 THEN TRUE
    ELSE IF a[1] = b[1] THEN StrLess(Tail(a), Tail(b))
    ELSE CharCode(a[1]) < CharCode(b[1])

\* str(n) for an int.
RECURSIVE NatToStr(_)
NatToStr(n) ==
    IF n < 10 THEN <<Digits[n + 1]>>
    ELSE NatToStr(n \div 10) \o <<Digits[(n % 10) + 1]>>

IntToStr(n) == IF n < 0 THEN <<"-">> \o NatToStr(-n) ELSE NatToStr(n)

\* int(s) for a str of decimal digits.
RECURSIVE DigitsToNat(_)
DigitsToNat(s) ==
    IF Len(s) = 0 THEN 0
    ELSE 10 * DigitsToNat(SubSeq(s, 1, Len(s) - 1)) + DigitVal(s[Len(s)])

\* sep.join(parts)
RECURSIVE JoinStr(_, _)
JoinStr(parts, sep) ==
    IF Len(parts) = 0 THEN <<>>
    ELSE IF Len(parts) = 1 THEN parts[1]
    ELSE parts[1] \o sep \o JoinStr(Tail(parts), sep)

\* s.split(sep) for a one-character sep.
RECURSIVE SplitStr(_, _)
SplitStr(s, sep) ==
    IF \A k \in 1..Len(s) : s[k] # sep THEN <<s>>
    ELSE LET k == CHOOSE k \in 1..Len(s) :
                      s[k] = sep /\ \A j \in 1..(k - 1) : s[j] # sep
         IN <<SubSeq(s, 1, k - 1)>> \o SplitStr(SubSeq(s, k + 1, Len(s)), sep)

\* ------------------------------------------------------------ pathlib.Path
\* A PurePosixPath: whether it is anchored at the root, and its components.
IsComponent(c) == c # <<>> /\ c # <<".">>

ParsePath(s) ==
    [abs   |-> Len(s) > 0 /\ s[1] = "/",
     parts |-> SelectSeq(SplitStr(s, "/"), IsComponent)]

\* str(path)
PathStr(p) ==
    IF p.abs THEN <<"/">> \o JoinStr(p.parts, <<"/">>)
    ELSE IF Len(p.parts) = 0 THEN <<".">>
    ELSE JoinStr(p.parts, <<"/">>)

\* path.parent
PathParent(p) ==
    IF Len(p.parts) = 0 THEN p
    ELSE [abs |-> p.abs, parts |-> SubSeq(p.parts, 1, Len(p.parts) - 1)]

\* path.name
PathName(p) == IF Len(p.parts) = 0 THEN <<>> ELSE p.parts[Len(p.parts)]

\* a / b
PathJoin(a, b) ==
    IF b.abs THEN b ELSE [abs |-> a.abs, parts |-> a.parts \o b.parts]

\* path.relative_to(base), for a base that is an ancestor of path.
PathRelativeTo(p, base) ==
    [abs |-> FALSE, parts |-> SubSeq(p.parts, Len(base.parts) + 1, Len(p.parts))]

\* str.lstrip('.')
RECURSIVE LStripDots(_)
LStripDots(s) ==
    IF Len(s) > 0 /\ s[1] = "." THEN LStripDots(Tail(s)) ELSE s

\* ''.join(path.suffixes): everything from the first dot of the name on, the
\* name's leading dots apart; nothing when the name ends in a dot.
PathSuffixes(p) ==
    LET name == PathName(p)
        body == LStripDots(name)
    IN IF Len(name) = 0 \/ name[Len(name)] = "." THEN <<>>
       ELSE IF \A k \in 1..Len(body) : body[k] # "." THEN <<>>
       ELSE LET k == CHOOSE k \in 1..Len(body) :
                         body[k] = "." /\ \A j \in 1..(k - 1) : body[j] # "."
            IN SubSeq(body, k, Len(body))

\* fnmatch of one path component: "*" matches any run of characters.
RECURSIVE GlobMatch(_, _)
GlobMatch(pat, s) ==
    IF Len(pat) = 0 THEN Len(s) = 0
    ELSE IF pat[1] = "*"
         THEN GlobMatch(Tail(pat), s) \/ (Len(s) > 0 /\ GlobMatch(pat, Tail(s)))
    ELSE Len(s) > 0 /\ pat[1] = s[1] /\ GlobMatch(Tail(pat), Tail(s))

\* path.match(pattern) for a relative pattern: its components are matched
\* against the path's last components.
PathMatch(p, pattern) ==
    LET pp == ParsePath(pattern).parts
        n  == Len(pp)
        m  == Len(p.parts)
    IN n > 0 /\ n <= m /\
       \A k \in 1..n : GlobMatch(pp[k], p.parts[m - n + k])

\* ----------------------------------------------------------------- floats
\* 1.0 in fixed-point units: a float f is the integer f * Scale.
Scale == 1000

Fin(v) == [k |-> "fin", v |-> v]
Inf == [k |-> "inf", v |-> 0]
NegInf == [k |-> "-inf", v |-> 0]
NaN == [k |-> "nan", v |-> 0]

FNeg(a) ==
    CASE a.k = "fin" -> Fin(-a.v) [] a.k = "inf" -> NegInf
      [] a.k = "-inf" -> Inf [] OTHER -> NaN

\* a + b
FAdd(a, b) ==
    CASE a.k = "nan" \/ b.k = "nan" -> NaN
      [] a.k = "fin" /\ b.k = "fin" -> Fin(a.v + b.v)
      [] a.k = "fin" -> b
      [] b.k = "fin" -> a
      [] a.k = b.k -> a
      [] OTHER -> NaN

FSub(a, b) == FAdd(a, FNeg(b))

\* a * b, the product of two fixed-point values rescaled.
FMul(a, b) ==
    LET sgn(x) == IF x.k = "inf" THEN 1
                  ELSE IF x.k = "-inf" THEN -1
                  ELSE IF x.v > 0 THEN 1 ELSE IF x.v < 0 THEN -1 ELSE 0
    IN CASE a.k = "nan" \/ b.k = "nan" -> NaN
         [] a.k = "fin" /\ b.k = "fin" -> Fin((a.v * b.v) \div Scale)
         [] sgn(a) * sgn(b) = 0 -> NaN
         [] sgn(a) * sgn(b) > 0 -> Inf
         [] OTHER -> NegInf

\* a / 2
FHalf(a) == IF a.k = "fin" THEN Fin(a.v \div 2) ELSE a

\* a < b; every comparison with nan is false.
FLess(a, b) ==
    CASE a.k = "nan" \/ b.k = "nan" -> FALSE
      [] a.k = "fin" /\ b.k = "fin" -> a.v < b.v
      [] a.k = "-inf" -> b.k # "-inf"
      [] b.k = "inf" -> a.k # "inf"
      [] OTHER -> FALSE

FEq(a, b) == a.k # "nan" /\ b.k # "nan" /\ a = b
FLeq(a, b) == FLess(a, b) \/ FEq(a, b)

\* max(a, b) and min(a, b) as Python computes them: the first argument stays
\* unless the second compares strictly beyond it.
PyMax(a, b) == IF FLess(a, b) THEN b ELSE a
PyMin(a, b) == IF FLess(b, a) THEN b ELSE a

\* math.sqrt on fixed-point values: the floor of the root, found by bisection.
RECURSIVE ISqrtIn(_, _, _)
ISqrtIn(x, lo, hi) ==
    IF hi - lo <= 1 THEN lo
    ELSE LET mid == (lo + hi) \div 2
         IN IF mid * mid <= x THEN ISqrtIn(x, mid, hi) ELSE ISqrtIn(x, lo, mid)

ISqrt(x) == ISqrtIn(x, 0, IF x < 46340 THEN x + 1 ELSE 46340)

\* scipy.stats.norm.ppf on the quantiles a run can ask for, in 1/Scale units.
NormPpf(q) ==
    CASE q.k # "fin" -> NaN
      [] q.v < 0 \/ q.v > Scale -> NaN
      [] q.v = 0 -> NegInf
      [] q.v = 250 -> Fin(-674)
      [] q.v = 375 -> Fin(-319)
      [] q.v = 500 -> Fin(0)
      [] q.v = 625 -> Fin(319)
      [] q.v = 750 -> Fin(674)
      [] q.v = 800 -> Fin(842)
      [] q.v = 900 -> Fin(1282)
      [] q.v = 950 -> Fin(1645)
      [] q.v = Scale -> Inf

RECURSIVE SumSeq(_)
SumSeq(s) == IF Len(s) = 0 THEN 0 ELSE s[1] + SumSeq(Tail(s))

RECURSIVE MaxSeq(_)
MaxSeq(s) ==
    IF Len(s) = 1 THEN s[1]
    ELSE LET m == MaxSeq(Tail(s)) IN IF m > s[1] THEN m ELSE s[1]

\* statistics.mean
Mean(xs) == SumSeq(xs) \div Len(xs)

\* statistics.stdev(xs, xbar): the Bessel-corrected sample deviation.
Stdev(xs, xbar) ==
    LET ss == SumSeq([k \in 1..Len(xs) |-> (xs[k] - xbar) * (xs[k] - xbar)])
    IN ISqrt(ss \div (Len(xs) - 1))

\* HalvedConfidence without the halving: the z-score looked up at the
\* confidence itself.
ConfidenceNotHalved(confidence) == confidence

\* The quantile the z-score is looked up at: 1 - ((1 - confidence) / 2).
HalvedConfidence(confidence) ==
    FSub(Fin(Scale), FHalf(FSub(Fin(Scale), confidence)))

\* ci_size = z * (stdev / math.sqrt(len(entries)))
CiSize(xs, confidence) ==
    LET mean  == Mean(xs)
        stdev == Stdev(xs, mean)
        z     == NormPpf(HalvedConfidence(confidence))
    IN FMul(z, Fin((stdev * Scale) \div ISqrt(Len(xs) * Scale * Scale)))

\* confidence_interval(entries, confidence, key) on a sample of at least two
\* durations: the two bounds, and the values its print statement shows.
ConfidenceInterval(xs, confidence) ==
    LET mean    == Mean(xs)
        ci_size == CiSize(xs, confidence)
    IN [n       |-> Len(xs),
        mean    |-> mean,
        stdev   |-> Stdev(xs, mean),
        ci_size |-> ci_size,
        lower   |-> PyMax(Fin(0), FSub(Fin(mean), ci_size)),
        upper   |-> PyMin(Fin(MaxSeq(xs)), FAdd(Fin(mean), ci_size))]

\* ranged_float(v_min, v_max)(v) on f = float(v): the parsed value, or nothing
\* when it raises ValueError.
RangedFloat(v_min, v_max, f) ==
    IF FLess(f, v_min) THEN None
    ELSE IF FLess(v_max, f) THEN None
    ELSE Some(f)

\* ------------------------------------------------------------- formatting
\* A value handed to str.format: an int or a str.
IntVal(n) == [isInt |-> TRUE, n |-> n, s |-> <<>>]
StrVal(s) == [isInt |-> FALSE, n |-> 0, s |-> s]
ToStr(v) == IF v.isInt THEN IntToStr(v.n) ELSE v.s

\* Whether int(s) succeeds: an optional sign and decimal digits.
IsIntLiteral(s) ==
    LET body == IF Len(s) > 0 /\ s[1] \in {"-", "+"} THEN Tail(s) ELSE s
    IN Len(body) > 0 /\ \A k \in 1..Len(body) : IsDigit(body[k])

ParseInt(s) ==
    IF s[1] = "-" THEN -DigitsToNat(Tail(s))
    ELSE IF s[1] = "+" THEN DigitsToNat(Tail(s))
    ELSE DigitsToNat(s)

\* maybe_convert_int(s)
MaybeConvertInt(s) ==
    IF IsIntLiteral(s)
    THEN LET conv == ParseInt(s)
         IN IF IntToStr(conv) = s THEN IntVal(conv) ELSE StrVal(s)
    ELSE StrVal(s)

\* ------------------------------------------------------------- re.match
\* A pattern is a sequence of elements: a character matching itself, "."
\* matching any character, "\\." matching a dot, and the two groups below,
\* each capturing one or more digits.
PosGroup == "(\\d+)"
NamedGroup == "(?P<n>\\d+)"
IsGroup(e) == e \in {PosGroup, NamedGroup}

NoMatch == [ok |-> FALSE, groups |-> <<>>, names |-> <<>>]

\* The match of pat[i..] against s[j..], greedy groups backtracking.
RECURSIVE MatchFrom(_, _, _, _, _, _)
RECURSIVE MatchGroup(_, _, _, _, _, _, _)
MatchFrom(pat, s, i, j, groups, names) ==
    IF i > Len(pat) THEN [ok |-> TRUE, groups |-> groups, names |-> names]
    ELSE LET e == pat[i]
         IN IF IsGroup(e)
            THEN LET run == CHOOSE r \in 0..(Len(s) - j + 1) :
                                /\ \A k \in j..(j + r - 1) : IsDigit(s[k])
                                /\ (j + r > Len(s) \/ ~IsDigit(s[j + r]))
                 IN MatchGroup(pat, s, i, j, run, groups, names)
            ELSE IF j > Len(s) THEN NoMatch
            ELSE IF (e = "." \/ (e = "\\." /\ s[j] = ".") \/ (e # "\\." /\ e = s[j]))
                 THEN MatchFrom(pat, s, i + 1, j + 1, groups, names)
            ELSE NoMatch

MatchGroup(pat, s, i, j, len, groups, names) ==
    IF len = 0 THEN NoMatch
    ELSE LET r == MatchFrom(pat, s, i + 1, j + len,
                            Append(groups, SubSeq(s, j, j + len - 1)),
                            Append(names, pat[i] = NamedGroup))
         IN IF r.ok THEN r ELSE MatchGroup(pat, s, i, j, len - 1, groups, names)

\* input_regex.match(s): anchored at the start of s, not at its end.
ReMatch(pat, s) == MatchFrom(pat, s, 1, 1, <<>>, <<>>)

\* m.groups() converted: the positional arguments of the format call.
FormatArgs(m) == [k \in 1..Len(m.groups) |-> MaybeConvertInt(m.groups[k])]

\* m.groupdict() converted: the named groups (a later one of a name wins).
GroupDict(m) ==
    IF \E k \in 1..Len(m.names) : m.names[k]
    THEN LET last == CHOOSE k \in 1..Len(m.names) :
                         m.names[k] /\ \A j \in (k + 1)..Len(m.names) : ~m.names[j]
         IN [key \in {"n"} |-> MaybeConvertInt(m.groups[last])]
    ELSE <<>>

\* dict.update: b's entries replace a's.
DictUpdate(a, b) ==
    [key \in (DOMAIN a) \cup (DOMAIN b) |->
        IF key \in DOMAIN b THEN b[key] ELSE a[key]]

\* ------------------------------------------------------------- str.format
\* A template is a sequence of elements: a literal character, or one of the
\* replacement fields below, written whole.
Fields == {"{offset_index}", "{index}", "{extension}", "{n}", "{0}", "{0:02d}"}
FieldIsPositional(f) == f \in {"{0}", "{0:02d}"}
FieldKey(f) ==
    CASE f = "{offset_index}" -> "offset_index" [] f = "{index}" -> "index"
      [] f = "{extension}" -> "extension" [] f = "{n}" -> "n"
FieldHasSpec(f) == f = "{0:02d}"

FormatError == [ok |-> FALSE, text |-> <<>>]

\* format(v, '02d'): an int zero-padded to two characters; a str raises.
FormatSpec02d(v) ==
    IF ~v.isInt THEN FormatError
    ELSE [ok |-> TRUE,
          text |-> IF Len(IntToStr(v.n)) >= 2 THEN IntToStr(v.n)
                   ELSE IF v.n < 0 THEN <<"-">> \o NatToStr(-v.n)
                   ELSE <<"0">> \o NatToStr(v.n)]

FormatField(f, fargs, kwargs) ==
    IF FieldIsPositional(f)
    THEN IF Len(fargs) < 1 THEN FormatError
         ELSE IF FieldHasSpec(f) THEN FormatSpec02d(fargs[1])
         ELSE [ok |-> TRUE, text |-> ToStr(fargs[1])]
    ELSE IF FieldKey(f) \notin DOMAIN kwargs THEN FormatError
    ELSE [ok |-> TRUE, text |-> ToStr(kwargs[FieldKey(f)])]

\* output_format.format(*format_args, **format_kwargs)
RECURSIVE Format(_, _, _)
Format(template, fargs, kwargs) ==
    IF Len(template) = 0 THEN [ok |-> TRUE, text |-> <<>>]
    ELSE LET head == IF template[1] \in Fields
                     THEN FormatField(template[1], fargs, kwargs)
                     ELSE [ok |-> TRUE, text |-> <<template[1]>>]
             rest == Format(Tail(template), fargs, kwargs)
         IN IF head.ok /\ rest.ok
            THEN [ok |-> TRUE, text |-> head.text \o rest.text]
            ELSE FormatError

\* 'E{offset_index}{extension}'
DefaultFormat == <<"E", "{offset_index}", "{extension}">>

\* ------------------------------------------------------------------ state
VARIABLES
    argv,              \* the command line, as argparse reads it
    env,               \* the directory tree: what iterdir, ffprobe, is_dir answer
    pc,                \* where main() is
    args,              \* the parsed arguments
    d_idx,             \* the directories scanned so far
    files,             \* the catalog
    interval,          \* what confidence_interval computed; None before
    minimum_duration,  \* the lower cut-off the filter uses
    keep,              \* the kept entries
    i,                 \* the index of the rename loop
    paths,             \* the plan: (input abs path, output path)
    fmt_log,           \* the format_kwargs each plan entry was formatted with
    stdout,            \* the lines printed to sys.stdout
    stderr,            \* the lines printed to sys.stderr
    exit_code          \* the process's exit status; None while it runs

vars == <<argv, env, pc, args, d_idx, files, interval, minimum_duration, keep,
          i, paths, fmt_log, stdout, stderr, exit_code>>

\* One printed line: the print statement it comes from, its text where the
\* text is a plan line, and the values it shows otherwise.
Line(kind, text, vals) == [kind |-> kind, text |-> text, vals |-> vals]

\* --------------------------------------------------------------- sorting
\* a < b for two lists of str, as Path orders its parts.
RECURSIVE PartsLess(_, _)
PartsLess(a, b) ==
    IF Len(b) = 0 THEN FALSE
    ELSE IF Len(a) = 0 THEN TRUE
    ELSE IF a[1] = b[1] THEN PartsLess(Tail(a), Tail(b))
    ELSE StrLess(a[1], b[1])

\* key=lambda e: str(e.rel_path)
RelPathLess(a, b) == StrLess(PathStr(a.rel_path), PathStr(b.rel_path))

\* Entry's own order (attr.s): by abs_path first, which no two entries of one
\* directory share.
EntryLess(a, b) == PartsLess(a.abs_path.parts, b.abs_path.parts)

\* sorted(s, key=lambda e: str(e.rel_path)): stable, as list.sort is.
SortedByRelPath(s) ==
    LET pos(k) == 1 + Cardinality({j \in 1..Len(s) :
                        RelPathLess(s[j], s[k])
                        \/ (~RelPathLess(s[k], s[j]) /\ j < k)})
    IN [p \in 1..Len(s) |-> s[CHOOSE k \in 1..Len(s) : pos(k) = p]]

\* sorted(s) under Entry's own order, stable as well.
SortedByEntryOrder(s) ==
    LET pos(k) == 1 + Cardinality({j \in 1..Len(s) :
                        EntryLess(s[j], s[k])
                        \/ (~EntryLess(s[k], s[j]) /\ j < k)})
    IN [p \in 1..Len(s) |-> s[CHOOSE k \in 1..Len(s) : pos(k) = p]]

\* ------------------------------------------------------------------ scan
\* Entry.new(abs_path) for a child whose probe succeeds.
NewEntry(dir, child) ==
    LET abs_path == PathJoin(dir, ParsePath(child.name))
    IN [abs_path |-> abs_path,
        rel_path |-> PathRelativeTo(abs_path, PathParent(PathParent(abs_path))),
        size     |-> child.size,
        duration |-> Val(child.duration) * Scale]

\* The children scan(directory) reaches, in iterdir's order: the files, up to
\* and including the first whose probe fails.
ScanReached(children) ==
    LET fs == SelectSeq(children, LAMBDA c : c.is_file)
    IN IF \A k \in 1..Len(fs) : ~IsNone(fs[k].duration) THEN fs
       ELSE SubSeq(fs, 1, CHOOSE k \in 1..Len(fs) :
                              IsNone(fs[k].duration) /\
                              \A j \in 1..(k - 1) : ~IsNone(fs[j].duration))

ProbeFails(children) ==
    \E k \in 1..Len(children) : children[k].is_file /\ IsNone(children[k].duration)

\* entries[:args.exclude_after + 1], taken when args.exclude_after is truthy.
ExcludeAfter(entries, exclude_after) ==
    IF ~IsNone(exclude_after) /\ Val(exclude_after) # 0
    THEN LET stop == Val(exclude_after) + 1
             n    == Len(entries)
             last == IF stop >= 0 THEN (IF stop < n THEN stop ELSE n)
                     ELSE (IF n + stop > 0 THEN n + stop ELSE 0)
         IN SubSeq(entries, 1, last)
    ELSE entries

\* sorted(sorted(scan(d), key=lambda e: str(e.rel_path)))
SortedEntries(dir, children) ==
    LET scanned == [k \in 1..Len(children) |-> NewEntry(dir, children[k])]
    IN SortedByEntryOrder(SortedByRelPath(scanned))

\* ----------------------------------------------------------- the actions
\* parser.parse_args(): --confidence goes through ranged_float(0.0, 1); a
\* value it raises on ends the run with argparse's usage error, status 2.
ParsedConfidence ==
    IF IsNone(argv.confidence) THEN Some(Fin(Scale \div 2))
    ELSE RangedFloat(Fin(0), Fin(Scale), Val(argv.confidence))

ParseArgs ==
    /\ pc = "parse"
    /\ IF IsNone(ParsedConfidence)
       THEN /\ pc' = "exit"
            /\ exit_code' = Some(2)
            /\ stderr' = Append(stderr, Line("usage", <<>>, <<>>))
            /\ UNCHANGED args
       ELSE /\ pc' = "scan"
            /\ args' = [argv EXCEPT
                          !.confidence = Val(ParsedConfidence),
                          !.directories =
                              [k \in 1..Len(argv.directories) |->
                                  ParsePath(argv.directories[k])],
                          !.output = IF IsNone(argv.output) THEN None
                                     ELSE Some(ParsePath(Val(argv.output)))]
            /\ UNCHANGED <<exit_code, stderr>>
    /\ UNCHANGED <<argv, env, d_idx, files, interval, minimum_duration, keep,
                   i, paths, fmt_log, stdout>>

\* One round of "for d in args.directories".
ScanDir ==
    /\ pc = "scan"
    /\ LET dir      == args.directories[d_idx + 1]
           children == env.tree[PathStr(dir)]
           reached  == ScanReached(children)
           checking == [k \in 1..Len(reached) |->
                          Line("checking", <<>>,
                               <<PathStr(PathJoin(dir, ParsePath(reached[k].name)))>>)]
       IN IF ProbeFails(children)
          THEN /\ pc' = "exit"
               /\ exit_code' = Some(1)
               /\ stderr' = (stderr \o checking) \o
                               <<Line("traceback", <<>>, <<"CalledProcessError">>)>>
               /\ UNCHANGED <<files, d_idx>>
          ELSE /\ files' = files \o
                     ExcludeAfter(SortedEntries(dir, reached), args.exclude_after)
               /\ stderr' = stderr \o checking
               /\ d_idx' = d_idx + 1
               /\ pc' = IF d_idx + 1 = Len(args.directories) THEN "exclude" ELSE "scan"
               /\ UNCHANGED exit_code
    /\ UNCHANGED <<argv, env, args, interval, minimum_duration, keep, i, paths,
                   fmt_log, stdout>>

\* "if args.exclude: for exclude in args.exclude: files = [...]"
RECURSIVE ExcludeAll(_, _)
ExcludeAll(fs, excludes) ==
    IF Len(excludes) = 0 THEN fs
    ELSE ExcludeAll(SelectSeq(fs, LAMBDA e : ~PathMatch(e.rel_path, excludes[1])),
                    Tail(excludes))

Exclude ==
    /\ pc = "exclude"
    /\ files' = ExcludeAll(files, args.exclude)
    /\ pc' = "stats"
    /\ UNCHANGED <<argv, env, args, d_idx, interval, minimum_duration, keep, i,
                   paths, fmt_log, stdout, stderr, exit_code>>

\* confidence_interval(entries=files, ...), and the interval's line.  The
\* statistics module raises StatisticsError on fewer than two values.
Stats ==
    /\ pc = "stats"
    /\ IF Len(files) < 2
       THEN /\ pc' = "exit"
            /\ exit_code' = Some(1)
            /\ stderr' = Append(stderr, Line("traceback", <<>>, <<"StatisticsError">>))
            /\ UNCHANGED <<interval, stdout>>
       ELSE LET ci == ConfidenceInterval([k \in 1..Len(files) |-> files[k].duration],
                                         args.confidence)
            IN /\ interval' = Some(ci)
               /\ stdout' = Append(stdout,
                      Line("stats", <<>>, <<ci.n, ci.mean, ci.stdev, ci.ci_size>>))
               /\ stderr' = Append(stderr,
                      Line("duration interval", <<>>, <<ci.lower, ci.upper>>))
               /\ pc' = "filter"
               /\ UNCHANGED exit_code
    /\ UNCHANGED <<argv, env, args, d_idx, files, minimum_duration, keep, i,
                   paths, fmt_log>>

\* humanfriendly.parse_timespan on a plain number of seconds; nothing when it
\* raises InvalidTimespan.
ParseTimespan(s) ==
    IF Len(s) > 0 /\ \A k \in 1..Len(s) : IsDigit(s[k])
    THEN Some(Fin(DigitsToNat(s) * Scale))
    ELSE None

\* "if args.min_duration:" is the truth value of a str.
MinDurationGiven(a) == ~IsNone(a.min_duration) /\ Len(Val(a.min_duration)) > 0

\* KeepLong with > for >=.
KeepLongStrict(fs, minimum) == SelectSeq(fs, LAMBDA e : FLess(minimum, Fin(e.duration)))

\* keep = [e for e in files if e.duration >= minimum_duration]
KeepLong(fs, minimum) == SelectSeq(fs, LAMBDA e : FLeq(minimum, Fin(e.duration)))

\* keep = [e for e in keep if e.duration <= duration_upper]
KeepShort(fs, upper) == SelectSeq(fs, LAMBDA e : FLeq(Fin(e.duration), upper))

Filter ==
    /\ pc = "filter"
    /\ LET ci == Val(interval)
           parsed == IF MinDurationGiven(args)
                     THEN ParseTimespan(Val(args.min_duration))
                     ELSE Some(ci.lower)
       IN IF IsNone(parsed)
          THEN /\ pc' = "exit"
               /\ exit_code' = Some(1)
               /\ stderr' = Append(stderr, Line("traceback", <<>>, <<"InvalidTimespan">>))
               /\ UNCHANGED <<minimum_duration, keep>>
          ELSE LET minimum == Val(parsed)
                   long    == KeepLong(files, minimum)
                   kept    == IF args.max THEN KeepShort(long, ci.upper) ELSE long
               IN /\ minimum_duration' = Some(minimum)
                  /\ keep' = kept
                  /\ stderr' =
                        stderr
                        \o <<Line(IF MinDurationGiven(args) THEN "user minimum size"
                                  ELSE "calculated minimum size", <<>>, <<minimum>>)>>
                        \o (IF args.max
                            THEN <<Line("excluding titles longer than", <<>>, <<ci.upper>>)>>
                            ELSE <<>>)
                        \o [k \in 1..Len(kept) |->
                              Line("kept", <<>>, <<k, PathStr(kept[k].rel_path),
                                                   kept[k].duration>>)]
                        \o <<Line("keep count", <<>>, <<Len(kept)>>)>>
                  /\ pc' = "expect"
                  /\ UNCHANGED exit_code
    /\ UNCHANGED <<argv, env, args, d_idx, files, interval, i, paths, fmt_log,
                   stdout>>

\* ExpectFails with "args.expect and ..." for "args.expect is not None and ...".
ExpectFailsTruthy(expect, kept) ==
    ~IsNone(expect) /\ Val(expect) # 0 /\ Val(expect) # Len(kept)

\* args.expect is not None and args.expect != len(keep)
ExpectFails(expect, kept) == ~IsNone(expect) /\ Val(expect) # Len(kept)

ExpectCheck ==
    /\ pc = "expect"
    /\ IF ExpectFails(args.expect, keep)
       THEN /\ stderr' = Append(stderr,
                   Line("error: expected", <<>>, <<Val(args.expect), Len(keep)>>))
            /\ exit_code' = Some(1)
            /\ pc' = "exit"
       ELSE /\ stderr' = Append(stderr, Line("---", <<>>, <<>>))
            /\ pc' = "rename"
            /\ UNCHANGED exit_code
    /\ UNCHANGED <<argv, env, args, d_idx, files, interval, minimum_duration,
                   keep, i, paths, fmt_log, stdout>>

\* input_regex: the compiled pattern when args.input_regex is a non-empty str.
InputRegex(a) ==
    IF ~IsNone(a.input_regex) /\ Len(Val(a.input_regex)) > 0
    THEN a.input_regex ELSE None

\* output_format: args.output_format when it is a non-empty str.
OutputFormat(a) ==
    IF ~IsNone(a.output_format) /\ Len(Val(a.output_format)) > 0
    THEN Val(a.output_format) ELSE DefaultFormat

\* Skipped without the "else: continue".
SkippedNever(regex, entry) == FALSE

\* The "continue" of the rename loop: a pattern is set and does not match.
Skipped(regex, entry) ==
    ~IsNone(regex) /\ ~ReMatch(Val(regex), PathStr(entry.rel_path)).ok

\* ImplicitKwargs numbering by the plan's length instead of the loop index.
ImplicitKwargsByPlanPosition(offset, idx, entry) ==
    [index        |-> IntVal(offset + Len(paths)),
     offset_index |-> IntVal(offset + Len(paths) + 1),
     extension    |-> StrVal(PathSuffixes(entry.rel_path))]

\* The implicit variables format_kwargs.update(...) merges in, for the entry
\* at index idx of enumerate(keep).
ImplicitKwargs(offset, idx, entry) ==
    [index        |-> IntVal(offset + idx),
     offset_index |-> IntVal(offset + idx + 1),
     extension    |-> StrVal(PathSuffixes(entry.rel_path))]

\* One round of "for i, entry in enumerate(keep)".
RenameStep ==
    /\ pc = "rename"
    /\ i < Len(keep)
    /\ LET entry  == keep[i + 1]
           regex  == InputRegex(args)
       IN IF Skipped(regex, entry)
          THEN /\ i' = i + 1
               /\ UNCHANGED <<paths, fmt_log, pc, exit_code, stderr>>
          ELSE LET m == IF IsNone(regex) THEN NoMatch
                        ELSE ReMatch(Val(regex), PathStr(entry.rel_path))
                   format_args   == FormatArgs(m)
                   format_kwargs == DictUpdate(GroupDict(m),
                                               ImplicitKwargs(args.offset, i, entry))
                   formatted == Format(OutputFormat(args), format_args, format_kwargs)
                   new_path  == IF IsNone(args.output) THEN ParsePath(formatted.text)
                                ELSE PathJoin(Val(args.output), ParsePath(formatted.text))
               IN IF ~formatted.ok
                  THEN /\ pc' = "exit"
                       /\ exit_code' = Some(1)
                       /\ stderr' = Append(stderr,
                              Line("traceback", <<>>, <<"format">>))
                       /\ UNCHANGED <<i, paths, fmt_log>>
                  ELSE /\ paths' = Append(paths, <<entry.abs_path, new_path>>)
                       /\ fmt_log' = Append(fmt_log, format_kwargs)
                       /\ i' = i + 1
                       /\ UNCHANGED <<pc, exit_code, stderr>>
    /\ UNCHANGED <<argv, env, args, d_idx, files, interval, minimum_duration,
                   keep, stdout>>

\* dest.parent.is_dir()
IsDir(p) == PathStr(p) \in env.dirs_on_disk

\* dirs: the set of str(dest.parent) over the plan's destinations whose parent
\* is not a directory.
Dirs(plan) ==
    {PathStr(PathParent(plan[k][2])) :
        k \in {j \in 1..Len(plan) : ~IsDir(PathParent(plan[j][2]))}}

\* DirOrders with dirs a list: one element for each destination, in plan order.
DirOrdersNoDedup(plan) ==
    LET missing == SelectSeq(plan, LAMBDA pair : ~IsDir(PathParent(pair[2])))
    IN {[k \in 1..Len(missing) |-> PathStr(PathParent(missing[k][2]))]}

\* The orders "for dir_name in dirs" can take: a set iterates in any order.
DirOrders(plan) ==
    LET S == Dirs(plan)
    IN {f \in [1..Cardinality(S) -> S] :
           \A a, b \in 1..Cardinality(S) : a # b => f[a] # f[b]}

Quote == <<"'">>

\* 'mkdir -p \'{}\''.format(dir_name)
MkdirLine(dir_name) ==
    <<"m", "k", "d", "i", "r", " ", "-", "p", " ">> \o Quote \o dir_name \o Quote

\* 'mv \'{}\' \'{}\''.format(str(src), str(dest))
MvLine(src, dest) ==
    <<"m", "v", " ">> \o Quote \o PathStr(src) \o Quote \o <<" ">>
        \o Quote \o PathStr(dest) \o Quote

\* The end of the loop, the directory lines and the move lines.
Emit ==
    /\ pc = "rename"
    /\ i = Len(keep)
    /\ \E order \in DirOrders(paths) :
          stdout' = stdout
              \o [k \in 1..Len(order) |-> Line("mkdir", MkdirLine(order[k]), <<>>)]
              \o [k \in 1..Len(paths) |->
                    Line("mv", MvLine(paths[k][1], paths[k][2]), <<>>)]
    /\ pc' = "done"
    /\ exit_code' = Some(0)
    /\ UNCHANGED <<argv, env, args, d_idx, files, interval, minimum_duration,
                   keep, i, paths, fmt_log, stderr>>

Next ==
    \/ ParseArgs
    \/ ScanDir
    \/ Exclude
    \/ Stats
    \/ Filter
    \/ ExpectCheck
    \/ RenameStep
    \/ Emit

\* ------------------------------------------------------------- the inputs
\* The state as main() starts: a command line and a directory tree.  The
\* inputs are drawn from four families, each varying the options one stage
\* reads and leaving the others at their defaults.
DirS == <<"s">>
DirT == <<"t">>
DirM == <<"/", "m", "/", "s">>

File(name, seconds) ==
    [name |-> name, is_file |-> TRUE, size |-> 0, duration |-> Some(seconds)]
Unprobed(name) ==
    [name |-> name, is_file |-> TRUE, size |-> 0, duration |-> None]
Subdir(name) ==
    [name |-> name, is_file |-> FALSE, size |-> 0, duration |-> None]

NameA == <<"a", ".", "x">>
NameB == <<"b">>
Name1 == <<"1", ".", "x">>
Name01 == <<"0", "1", ".", "x">>
Name2 == <<"2", ".", "x", ".", "y">>
NameQ == <<"a", "'", "b">>

DefaultArgv ==
    [directories   |-> <<DirS>>,
     exclude_after |-> None,
     exclude       |-> <<>>,
     offset        |-> 0,
     min_duration  |-> None,
     confidence    |-> None,
     input_regex   |-> None,
     output        |-> None,
     output_format |-> None,
     expect        |-> None,
     max           |-> FALSE]

\* What is a directory before the run: the working directory, the scanned
\* directories, and the ones given.
Disk(more) == {<<".">>, DirS, DirT, DirM} \cup more

Tree(s_children) ==
    [d \in {DirS, DirT, DirM} |->
        IF d = DirT THEN <<File(NameB, 2), File(NameA, 2)>> ELSE s_children]

\* The sequences of at most n distinct members of pool.
Listings(pool, n) ==
    UNION {{f \in [1..k -> pool] : \A a, b \in 1..k : a # b => f[a] # f[b]} :
              k \in 0..n}

\* Scanning: the directories, their listings in any iterdir order, the
\* per-directory limit and the excluded globs.
ScanPool ==
    {File(NameB, 2), File(NameA, 2), File(Name1, 2), Subdir(<<"o">>),
     Unprobed(<<"x">>)}

ScanListings == Listings(ScanPool, MaxExcludeAfter + 1)

ScanInputs ==
    \E opt \in {<<<<DirS>>, <<>>>>,
                <<<<DirS, DirT>>, <<>>>>,
                <<<<DirT, <<"s", "/">>>>, <<>>>>,
                <<<<DirS, DirS>>, <<>>>>,
                <<<<DirS, DirT>>, <<NameB>>>>,
                <<<<DirS, DirT>>, <<<<"*", ".", "x">>, <<"s", "/", "b">>>>>>},
       ea \in {None} \cup {Some(n) : n \in -1..MaxExcludeAfter},
       ls \in ScanListings :
        /\ argv = [DefaultArgv EXCEPT !.directories = opt[1], !.exclude = opt[2],
                                      !.exclude_after = ea]
        /\ env = [tree |-> Tree(ls), dirs_on_disk |-> Disk({})]

\* Samples: up to MaxSample files of every duration up to MaxDur.
SampleListings ==
    UNION {{[k \in 1..n |-> File(IntToStr(k) \o <<".", "x">>, durs[k])] :
               durs \in [1..n -> 0..MaxDur]} : n \in 0..MaxSample}

ConfidenceValues ==
    {None, Some(NaN), Some(Fin(-500)), Some(Fin(0)), Some(Fin(250)),
     Some(Fin(500)), Some(Fin(800)), Some(Fin(900)), Some(Fin(Scale)),
     Some(Fin(1500))}

StatsInputs ==
    \E c \in ConfidenceValues, ls \in SampleListings :
        /\ argv = [DefaultArgv EXCEPT !.confidence = c]
        /\ env = [tree |-> Tree(ls), dirs_on_disk |-> Disk({})]

\* Filtering: the explicit minimum and the upper cut-off, and separately the
\* expected count.
FilterInputs ==
    \E ls \in SampleListings :
        /\ env = [tree |-> Tree(ls), dirs_on_disk |-> Disk({})]
        /\ \/ \E md \in {None, Some(<<>>), Some(<<"2">>), Some(<<"x">>)},
                 mx \in BOOLEAN :
                  argv = [DefaultArgv EXCEPT !.min_duration = md, !.max = mx]
           \/ \E n \in 0..MaxExpect :
                  argv = [DefaultArgv EXCEPT !.expect = Some(n)]

\* Renaming: patterns, templates, offsets and output directories over a few
\* listings; in all but the second the files last as long and are all kept.
PlanListings ==
    {<<File(Name1, 2), File(Name01, 2)>>,
     <<File(NameA, 2), File(Name2, 2), File(Name01, 0), File(Name1, 2)>>,
     <<File(NameQ, 2), File(Name1, 2)>>,
     <<File(NameA, 2), File(NameB, 2)>>}

Patterns ==
    {None,
     Some(<<>>),
     Some(<<"s", "/", PosGroup, "\\.", "x">>),
     Some(<<"s", "/", NamedGroup>>),
     Some(<<"1">>),
     Some(<<"s", "/", "a">>)}

Templates ==
    {None,
     Some(<<"p", "/", "E", "{offset_index}", "{extension}">>),
     Some(<<"p", "/", "{0:02d}", "{extension}">>),
     Some(<<"{n}", "/", "{index}">>),
     Some(<<"{0}", "/", "/", "E", "{offset_index}">>)}

PlanInputs ==
    \E ds \in {<<DirS>>, <<DirM>>},
       re \in Patterns, fmt \in Templates, off \in -1..MaxOffset,
       out \in {None, Some(<<"o">>)},
       ex \in {None, Some(2)},
       more \in {{}, {<<"p">>}, {<<"o">>, <<"o", "/", "p">>}},
       ls \in PlanListings :
        /\ argv = [DefaultArgv EXCEPT !.directories = ds, !.input_regex = re,
                                      !.output_format = fmt, !.offset = off,
                                      !.output = out, !.expect = ex]
        /\ env = [tree |-> Tree(ls), dirs_on_disk |-> Disk(more)]

Inputs == ScanInputs \/ StatsInputs \/ FilterInputs \/ PlanInputs

Init ==
    /\ Inputs
    /\ pc = "parse"
    /\ args = None
    /\ d_idx = 0
    /\ files = <<>>
    /\ interval = None
    /\ minimum_duration = None
    /\ keep = <<>>
    /\ i = 0
    /\ paths = <<>>
    /\ fmt_log = <<>>
    /\ stdout = <<>>
    /\ stderr = <<>>
    /\ exit_code = None

Spec == Init /\ [][Next]_vars

\* ================================================================ claims
IsPlanLine(l) == l.kind \in {"mkdir", "mv"}
PlanLines == SelectSeq(stdout, IsPlanLine)
KindCount(kind) == Cardinality({k \in 1..Len(stdout) : stdout[k].kind = kind})
LastStderrKind == IF Len(stderr) = 0 THEN "" ELSE stderr[Len(stderr)].kind

\* Whether the kept entry at position p (1-based) fails the input pattern.
NonMatching(p) ==
    /\ ~IsNone(args.input_regex)
    /\ Len(Val(args.input_regex)) > 0
    /\ ~ReMatch(Val(args.input_regex), PathStr(keep[p].rel_path)).ok

\* The 1-based positions, among the first n kept entries, that reach formatting.
Formatted(n) == {p \in 1..n : ~NonMatching(p)}

\* The k-th smallest member of a set of numbers.
Nth(S, k) == CHOOSE p \in S : Cardinality({q \in S : q <= p}) = k

\* C1, as stated: the k-th plan entry (1-based) is formatted with
\* offset_index = offset + k, so the plan's offset_index values are consecutive.
C1_ConsecutiveNumbering ==
    \A k \in 1..Len(fmt_log) : fmt_log[k].offset_index = IntVal(args.offset + k)

\* C1, amended: a kept entry that fails the pattern adds nothing to the plan
\* but still uses up a number.  The k-th plan entry is the k-th kept entry that
\* passes the pattern, and it is formatted with its position p (1-based) in the
\* kept sequence: index = offset + p - 1, offset_index = offset + p.
C1_NumberingFollowsKeptPosition ==
    pc \in {"rename", "done"} =>
        /\ Len(paths) = Cardinality(Formatted(i))
        /\ Len(fmt_log) = Len(paths)
        /\ \A k \in 1..Len(paths) :
              LET p == Nth(Formatted(i), k)
              IN /\ paths[k][1] = keep[p].abs_path
                 /\ fmt_log[k].offset_index = IntVal(args.offset + p)
                 /\ fmt_log[k].index = IntVal(args.offset + p - 1)
        /\ \A k \in 1..(Len(fmt_log) - 1) :
              fmt_log[k].offset_index.n < fmt_log[k + 1].offset_index.n

\* C1's case: a finished plan in which an entry that failed the pattern
\* precedes one that passed, so the numbering has a gap, the filter having
\* dropped an entry before.
C1_Witness ==
    /\ pc = "done"
    /\ Len(paths) >= 1
    /\ Len(keep) < Len(files)
    /\ \E p \in 1..Len(keep) : NonMatching(p) /\ \E q \in (p + 1)..Len(keep) : ~NonMatching(q)

\* C2: when an expected count is set and differs from the number of kept
\* entries, the run ends with a non-zero exit status, its last message names
\* the expected and the actual count, and no plan line is printed.
C2_CountMismatchAborts ==
    (/\ ~IsNone(minimum_duration)
     /\ pc # "expect"
     /\ ~IsNone(args.expect)
     /\ Val(args.expect) # Len(keep))
    => /\ pc = "exit"
       /\ ~IsNone(exit_code) /\ Val(exit_code) # 0
       /\ LastStderrKind = "error: expected"
       /\ stderr[Len(stderr)].vals = <<Val(args.expect), Len(keep)>>
       /\ PlanLines = <<>>
       /\ paths = <<>>

\* C2's case: three entries expected, two kept, the run aborted.
C2_Witness ==
    /\ pc = "exit"
    /\ LastStderrKind = "error: expected"
    /\ Val(args.expect) = 3
    /\ Len(keep) = 2

\* C3, as stated: once a directory has been scanned or confidence_interval has
\* run, the confidence lies strictly between 0 and 1.
C3_ConfidenceValidated ==
    (d_idx > 0 \/ ~IsNone(interval)) =>
        /\ args.confidence.k = "fin"
        /\ args.confidence.v > 0
        /\ args.confidence.v < Scale

\* C4, as stated: every line on standard output is a directory-creation line
\* or a move line, and a run that aborts has written nothing there.
C4_StdoutOnlyPlanLines ==
    /\ \A k \in 1..Len(stdout) : IsPlanLine(stdout[k])
    /\ pc = "exit" => stdout = <<>>

\* The words a POSIX shell reads from a line: blanks separate words, and a
\* single quote starts a run taken literally up to the next single quote.
RECURSIVE ShellWordsFrom(_, _, _, _, _, _)
ShellWordsFrom(line, k, word, in_word, in_quote, words) ==
    IF k > Len(line)
    THEN [ok |-> ~in_quote,
          words |-> IF in_word THEN Append(words, word) ELSE words]
    ELSE LET c == line[k]
         IN IF in_quote
            THEN IF c = "'"
                 THEN ShellWordsFrom(line, k + 1, word, TRUE, FALSE, words)
                 ELSE ShellWordsFrom(line, k + 1, Append(word, c), TRUE, TRUE, words)
            ELSE IF c = "'"
                 THEN ShellWordsFrom(line, k + 1, word, TRUE, TRUE, words)
            ELSE IF c = " "
                 THEN ShellWordsFrom(line, k + 1, <<>>, FALSE, FALSE,
                                     IF in_word THEN Append(words, word) ELSE words)
            ELSE ShellWordsFrom(line, k + 1, Append(word, c), TRUE, FALSE, words)

ShellWords(line) == ShellWordsFrom(line, 1, <<>>, FALSE, FALSE, <<>>)

\* C5, as stated: every move line reads, in a shell, as mv with exactly the
\* source and the destination path, whatever characters the paths hold.
C5_QuotingSafe ==
    pc = "done" =>
        \A k \in 1..Len(paths) :
            ShellWords(PlanLines[Len(PlanLines) - Len(paths) + k].text)
                = [ok |-> TRUE,
                   words |-> <<<<"m", "v">>, PathStr(paths[k][1]), PathStr(paths[k][2])>>]

\* Whether a pattern is made of plain characters only, and is then a prefix.
IsLiteral(pat) == \A k \in 1..Len(pat) : ~IsGroup(pat[k]) /\ pat[k] \notin {".", "\\."}
IsPrefix(a, b) == Len(a) <= Len(b) /\ SubSeq(b, 1, Len(a)) = a

\* C6: a kept entry that fails the pattern (matched from the start of its
\* relative path) is the source of no move line, yet the expected count is
\* compared with all the kept entries; a run in which no kept entry passes the
\* pattern ends normally with an empty plan.
C6_KeptVsPlanAsymmetry ==
    pc \in {"rename", "done", "exit"} /\ ~IsNone(minimum_duration) =>
        /\ \A p \in 1..Len(keep) : NonMatching(p) =>
              \A k \in 1..Len(paths) : paths[k][1] # keep[p].abs_path
        /\ (~IsNone(InputRegex(args)) /\ IsLiteral(Val(args.input_regex))) =>
              \A k \in 1..Len(paths) :
                  \E p \in 1..Len(keep) :
                      /\ keep[p].abs_path = paths[k][1]
                      /\ IsPrefix(Val(args.input_regex), PathStr(keep[p].rel_path))
        /\ (pc \in {"rename", "done"} /\ ~IsNone(args.expect)) =>
              Val(args.expect) = Len(keep)
        /\ (pc = "exit" /\ LastStderrKind = "error: expected") =>
              Val(args.expect) # Len(keep)
        /\ (pc = "done" /\ Len(keep) > 0 /\ \A p \in 1..Len(keep) : NonMatching(p)) =>
              /\ paths = <<>>
              /\ PlanLines = <<>>
              /\ exit_code = Some(0)
        /\ pc = "done" => KindCount("mv") = Len(paths)

\* C6's case: the expected count equals the number of kept entries, none of
\* which passes the pattern, and the run has ended normally with an empty plan.
C6_Witness ==
    /\ pc = "done"
    /\ Len(keep) > 0
    /\ \A p \in 1..Len(keep) : NonMatching(p)
    /\ ~IsNone(args.expect) /\ Val(args.expect) = Len(keep)
    /\ PlanLines = <<>>

\* The minimum the filter is to use: the explicit one when given, otherwise
\* the computed lower bound.
C7_Minimum ==
    IF ~IsNone(args.min_duration) /\ Val(args.min_duration) # <<>>
    THEN Fin(DigitsToNat(Val(args.min_duration)) * Scale)
    ELSE Val(interval).lower

C7_Passes(e) ==
    /\ FLeq(C7_Minimum, Fin(e.duration))
    /\ args.max => FLeq(Fin(e.duration), Val(interval).upper)

\* C7: the kept sequence is the catalog's entries, in catalog order, whose
\* duration is at least the minimum and, if and only if --max is set, at most
\* the computed upper bound.
C7_KeptIsFilteredSubsequence ==
    ~IsNone(minimum_duration) =>
        LET idx == {k \in 1..Len(files) : C7_Passes(files[k])}
        IN /\ Len(keep) = Cardinality(idx)
           /\ \A j \in 1..Len(keep) : keep[j] = files[Nth(idx, j)]

\* C7's case: with --max set, the filter has dropped one entry for being too
\* short and one for being too long, and kept another.
C7_Witness ==
    /\ pc = "expect"
    /\ args.max
    /\ Len(keep) >= 1
    /\ \E k \in 1..Len(files) : ~FLeq(C7_Minimum, Fin(files[k].duration))
    /\ \E k \in 1..Len(files) : ~FLeq(Fin(files[k].duration), Val(interval).upper)

\* C8: for a sample of at least two non-negative durations and a confidence
\* strictly between 0 and 1, 0 <= lower <= mean <= upper <= max(sample), with
\* lower = max(0, mean - margin), upper = min(max(sample), mean + margin) and
\* margin >= 0.
C8_IntervalBrackets ==
    (/\ ~IsNone(interval)
     /\ args.confidence.k = "fin"
     /\ args.confidence.v > 0
     /\ args.confidence.v < Scale)
    => LET ci     == Val(interval)
           sample == [k \in 1..Len(files) |-> files[k].duration]
           top    == MaxSeq(sample)
       IN /\ ci.ci_size.k = "fin" /\ ci.lower.k = "fin" /\ ci.upper.k = "fin"
          /\ ci.ci_size.v >= 0
          /\ 0 <= ci.lower.v
          /\ ci.lower.v <= ci.mean
          /\ ci.mean <= ci.upper.v
          /\ ci.upper.v <= top
          /\ ci.lower.v = IF ci.mean - ci.ci_size.v > 0
                          THEN ci.mean - ci.ci_size.v ELSE 0
          /\ ci.upper.v = IF ci.mean + ci.ci_size.v < top
                          THEN ci.mean + ci.ci_size.v ELSE top

\* C8's case: an interval with a positive margin, strictly inside the sample's
\* range on both sides.
C8_Witness ==
    /\ ~IsNone(interval)
    /\ args.confidence = Fin(250)
    /\ Val(interval).ci_size.v > 0
    /\ Val(interval).lower.v > 0
    /\ Val(interval).upper.v < MaxSeq([k \in 1..Len(files) |-> files[k].duration])

\* The first n members of a sequence.
FirstN(s, n) == SubSeq(s, 1, IF n < Len(s) THEN n ELSE Len(s))

\* What C9 takes directory k to contribute: its files sorted by relative
\* path, the first N of them when an exclude-after count N is given.
C9_Contribution(k) ==
    LET dir    == args.directories[k]
        listed == SelectSeq(env.tree[PathStr(dir)], LAMBDA c : c.is_file)
        sorted == SortedByRelPath([j \in 1..Len(listed) |-> NewEntry(dir, listed[j])])
    IN IF IsNone(args.exclude_after) THEN sorted
       ELSE FirstN(sorted, Val(args.exclude_after))

RECURSIVE C9_Catalog(_)
C9_Catalog(k) ==
    IF k = 0 THEN <<>> ELSE C9_Catalog(k - 1) \o C9_Contribution(k)

\* C9, as stated: the catalog is the directories' contributions in the order
\* given, each sorted by relative path and cut to its first N entries for any
\* exclude-after count N >= 0.
C9_CatalogFirstN ==
    (/\ pc = "exclude"
     /\ (IsNone(args.exclude_after) \/ Val(args.exclude_after) >= 0))
    => files = C9_Catalog(Len(args.directories))

\* The parents of the plan's destinations that are not directories yet.
C10_Missing ==
    {PathStr(PathParent(paths[k][2])) :
        k \in {j \in 1..Len(paths) :
                  PathStr(PathParent(paths[j][2])) \notin env.dirs_on_disk}}

\* C10: no plan line is printed before the plan is complete; then every
\* directory-creation line precedes every move line, there is exactly one
\* creation line for each distinct destination parent that does not exist
\* yet, and the move lines are the plan's entries in order.
C10_DirsFirstOncePerParent ==
    /\ pc # "done" => PlanLines = <<>>
    /\ pc = "done" =>
          /\ \A a, b \in 1..Len(stdout) :
                (a < b /\ stdout[a].kind = "mv") => stdout[b].kind # "mkdir"
          /\ KindCount("mkdir") = Cardinality(C10_Missing)
          /\ {stdout[k].text : k \in {j \in 1..Len(stdout) : stdout[j].kind = "mkdir"}}
                = {MkdirLine(d) : d \in C10_Missing}
          /\ Len(PlanLines) = Cardinality(C10_Missing) + Len(paths)
          /\ \A k \in 1..Len(paths) :
                PlanLines[Cardinality(C10_Missing) + k].text
                    = MvLine(paths[k][1], paths[k][2])

\* C10's case: two destinations share a parent that does not exist yet, and
\* the finished plan creates it once.
C10_Witness ==
    /\ pc = "done"
    /\ Len(paths) >= 2
    /\ Cardinality(C10_Missing) = 1
    /\ PathParent(paths[1][2]) = PathParent(paths[2][2])
    /\ KindCount("mkdir") = 1

====
